---- MODULE Spec2Model ----
(***************************************************************************)
(* Model of src/cameraServer.py: the supervisor main() of the RTMP camera  *)
(* streaming service, with the functions it calls (wait_for_internet,      *)
(* start_camera_feed, kill_camera_processes, start_streaming,              *)
(* monitor_process_output) and the __main__ block around it.               *)
(*                                                                         *)
(* The supervisor is one thread of control; pc is its position, taken at   *)
(* the blocking calls of the code (probes, sleeps, subprocess calls, the   *)
(* HTTP request).  The environment acts through the results of those       *)
(* calls, through the exit of the child processes and through              *)
(* KeyboardInterrupt.  Logging and the loop counter `count` (line 182),    *)
(* which is only printed, are left out.                                    *)
(***************************************************************************)
EXTENDS Naturals, Sequences, FiniteSets

VARIABLES
    pc,              \* position of the supervisor
    killRet,         \* the caller kill_camera_processes returns to
    retry,           \* loop variable of `for retry in range(max_retries)`
    status,          \* the global `status` (line 27)
    led,             \* level of GPIO pin 18
    cam,             \* the libcamera process started last
    ff,              \* the ffmpeg process started last
    staleCam,        \* an earlier libcamera process of the supervisor is alive
    staleFf,         \* an earlier ffmpeg process of the supervisor is alive
    fatal,           \* cause of the last teardown of the poll loop
    diag,            \* the diagnostic line monitor_process_output read last
    intr,            \* KeyboardInterrupts delivered so far
    cause,           \* why the outer loop of main() was left
    cleanupKills,    \* times line 225 started kill_camera_processes
    cleanupKillDone, \* the call of line 225 returned
    gpioCleanups,    \* calls of GPIO.cleanup() at lines 226 and 234
    calls,           \* start_camera_feed calls since the last failed probe
    okCalls,         \* successful ones among them
    lastNotify,      \* result of the last start_camera_feed call
    killsSincePopen, \* kill_camera_processes calls returned since the last Popen
    attempts,        \* start_streaming calls since wait_for_internet was called
    lastFail,        \* why the last start_streaming call returned None
    waitProbes,      \* the probes of the last wait_for_internet call
    intrAt           \* where the KeyboardInterrupt of the last step arrived

ctl   == <<pc, killRet, retry>>
procs == <<cam, ff, staleCam, staleFf>>
notif == <<status, calls, okCalls, lastNotify>>
shut  == <<intr, cause, cleanupKills, cleanupKillDone, gpioCleanups>>
vars  == <<pc, killRet, retry, status, led, cam, ff, staleCam, staleFf, fatal,
           diag, intr, cause, cleanupKills, cleanupKillDone, gpioCleanups,
           calls, okCalls, lastNotify, killsSincePopen, attempts, lastFail,
           waitProbes, intrAt>>

(***************************************************************************)
(* Bounds of the model and constants of the program.                       *)
(***************************************************************************)
MaxLen == 2
MaxInterrupts == 2
MaxCalls == 2
MaxKills == 2
MaxAttempts == 4
max_retries == 3

Min(a, b) == IF a < b THEN a ELSE b

(***************************************************************************)
(* Diagnostic lines.  A line is a sequence of words, each in lower or in   *)
(* upper case; a substring test is a test on the words of the line.        *)
(***************************************************************************)
Words == {"info", "error", "timeout", "connection"}
Cases == {"lower", "upper"}
Tokens == [w : Words, c : Cases]
Lines == UNION {[1..n -> Tokens] : n \in 0..MaxLen}
NoDiag == [proc |-> "none", line |-> <<>>, fatal |-> FALSE]

\* a faulty variant of Lower: the line is compared as it was read
LowerIdentity(line) == line

\* str.lower() (line 89)
Lower(line) == [i \in DOMAIN line |-> [w |-> line[i].w, c |-> "lower"]]

\* `text in line` for a text that is one word
Contains(line, tok) == \E i \in DOMAIN line : line[i] = tok

\* the list of line 90
ErrorTerms == {"error", "failed", "cannot", "unable", "timeout", "terminated"}

\* line 89-90: any(error_term in error_output.lower() for error_term in [...])
AnyErrorTerm(line) ==
    \E t \in ErrorTerms : Contains(Lower(line), [w |-> t, c |-> "lower"])

\* a faulty variant of MonitorFatal: the test of line 85 is missing
MonitorFatalNoExemption(name, line) ==
    IF line = <<>> THEN FALSE ELSE AnyErrorTerm(line)

\* monitor_process_output (lines 77-95) on a line that select() found readable
MonitorFatal(name, line) ==
    IF line = <<>> THEN FALSE
    ELSE IF name = "libcamera" /\ Contains(line, [w |-> "info", c |-> "upper"])
         THEN FALSE
         ELSE AnyErrorTerm(line)

(***************************************************************************)
(* Positions.                                                              *)
(***************************************************************************)
KillPcs == {"kill1", "kill2", "killsleep"}
WaitPcs == {"wait_probe", "wait_sleep", "notify"}
LaunchPcs == {"start_streaming", "popen_cam", "settle", "popen_ff", "retry_sleep"}
StreamingPcs ==
    {"poll", "monitor_cam", "monitor_or", "monitor_ff", "poll_probe", "poll_sleep"}

InFinally == \/ pc \in KillPcs /\ killRet = "finally"
             \/ pc = "gpio_cleanup"
InMainTry == \/ pc \in KillPcs /\ killRet # "finally"
             \/ pc \in WaitPcs \cup LaunchPcs \cup StreamingPcs \cup {"cooldown"}

\* lines 13-27: pin 18 is set up as an output, which RPi.GPIO drives low
Init ==
    /\ pc = "start" /\ killRet = "none" /\ retry = 0
    /\ status = 0
    /\ led = "LOW"
    /\ cam = "none" /\ ff = "none" /\ staleCam = FALSE /\ staleFf = FALSE
    /\ fatal = "none" /\ diag = NoDiag
    /\ intr = 0 /\ cause = "none"
    /\ cleanupKills = 0 /\ cleanupKillDone = FALSE /\ gpioCleanups = 0
    /\ calls = 0 /\ okCalls = 0 /\ lastNotify = "none"
    /\ killsSincePopen = 0
    /\ attempts = 0 /\ lastFail = "none" /\ waitProbes = "none"
    /\ intrAt = "none"

(***************************************************************************)
(* kill_camera_processes (lines 66-75).                                    *)
(***************************************************************************)
Killed(p) == IF p = "alive" THEN "exited" ELSE p

\* where the caller goes on after the call returned
AfterKill(ret) ==
    CASE ret = "startup"  -> "wait_probe"      \* line 160 -> 163
      [] ret = "launch"   -> "popen_cam"       \* line 100 -> 126
      [] ret = "teardown" -> "cooldown"        \* lines 193-216: break -> 220
      [] ret = "finally"  -> "gpio_cleanup"    \* line 225 -> 226

KillReturn ==
    /\ pc' = AfterKill(killRet)
    /\ killRet' = "none"
    /\ cleanupKillDone' = (cleanupKillDone \/ killRet = "finally")
    /\ UNCHANGED <<retry, status, led, fatal, intr, cause, cleanupKills,
                   gpioCleanups, calls, okCalls, lastNotify,
                   attempts, lastFail, waitProbes>>
    /\ intrAt' = "none"
    /\ diag' = NoDiag
    /\ killsSincePopen' = Min(killsSincePopen + 1, MaxKills)

\* line 69, pkill returned within 5 s: every libcamera process is signalled
PkillLibcamera ==
    /\ pc = "kill1"
    /\ pc' = "kill2"
    /\ cam' = Killed(cam) /\ staleCam' = FALSE
    /\ diag' = NoDiag
    /\ UNCHANGED <<killRet, retry, ff, staleFf, status, led, fatal, shut,
                   calls, okCalls, lastNotify,
                   killsSincePopen,
                   attempts, lastFail, waitProbes>>
    /\ intrAt' = "none"

\* line 69 raises TimeoutExpired: line 70 and 71 are skipped (lines 72-73)
PkillLibcameraTimeout ==
    /\ pc = "kill1"
    /\ \E sent \in BOOLEAN :
          /\ cam' = IF sent THEN Killed(cam) ELSE cam
          /\ staleCam' = IF sent THEN FALSE ELSE staleCam
    /\ UNCHANGED <<ff, staleFf>>
    /\ KillReturn

\* line 70
PkillFfmpeg ==
    /\ pc = "kill2"
    /\ pc' = "killsleep"
    /\ ff' = Killed(ff) /\ staleFf' = FALSE
    /\ UNCHANGED <<killRet, retry, cam, staleCam, status, led, fatal, diag,
                   shut, calls, okCalls, lastNotify,
                   killsSincePopen,
                   attempts, lastFail, waitProbes, intrAt>>

\* line 70 raises TimeoutExpired
PkillFfmpegTimeout ==
    /\ pc = "kill2"
    /\ \E sent \in BOOLEAN :
          /\ ff' = IF sent THEN Killed(ff) ELSE ff
          /\ staleFf' = IF sent THEN FALSE ELSE staleFf
    /\ UNCHANGED <<cam, staleCam>>
    /\ KillReturn

\* line 71, then the return
KillSleep ==
    /\ pc = "killsleep"
    /\ UNCHANGED procs
    /\ KillReturn

(***************************************************************************)
(* main(), lines 155-160: the service starts with a teardown.              *)
(***************************************************************************)
MainStart ==
    /\ pc = "start"
    /\ pc' = "kill1" /\ killRet' = "startup"
    /\ UNCHANGED <<retry, status, led, procs, fatal, diag, shut, calls,
                   okCalls, lastNotify,
                   killsSincePopen,
                   attempts, lastFail, waitProbes, intrAt>>

(***************************************************************************)
(* wait_for_internet (lines 55-64) and start_camera_feed (lines 29-40).    *)
(***************************************************************************)
\* a faulty variant of NeedNotify: the flag is not looked at
NeedNotifyAlways(st) == TRUE

\* line 63: if not status
NeedNotify(st) == st = 0

\* line 58 with check_internet() true, then lines 62-63; with the flag set
\* wait_for_internet returns and the for loop of line 166 starts
WaitProbeOk ==
    /\ pc = "wait_probe"
    /\ IF NeedNotify(status)
       THEN pc' = "notify" /\ retry' = retry
       ELSE pc' = "start_streaming" /\ retry' = 0
    /\ diag' = NoDiag
    /\ UNCHANGED <<killRet, status, led, procs, fatal, shut, calls, okCalls,
                   lastNotify,
                   killsSincePopen,
                   attempts, lastFail, intrAt>>
    /\ waitProbes' = IF waitProbes = "failed" THEN "regained" ELSE "ok"

\* a faulty variant of WaitProbeFail: the while of line 58 is an if, and
\* wait_for_internet goes on to line 63 after one failed probe
WaitProbeFailProceeds ==
    /\ pc = "wait_probe"
    /\ pc' = "notify"
    /\ status' = 0
    /\ calls' = 0 /\ okCalls' = 0
    /\ UNCHANGED <<killRet, retry, led, procs, fatal, diag, shut, lastNotify,
                   killsSincePopen, attempts, lastFail, intrAt>>
    /\ waitProbes' = "failed"

\* line 58 with check_internet() false, then lines 59-60
WaitProbeFail ==
    /\ pc = "wait_probe"
    /\ pc' = "wait_sleep"
    /\ status' = 0
    /\ calls' = 0 /\ okCalls' = 0
    /\ UNCHANGED <<killRet, retry, led, procs, fatal, diag, shut, lastNotify,
                   killsSincePopen,
                   attempts, lastFail, intrAt>>
    /\ waitProbes' = "failed"

\* line 61
WaitSleep ==
    /\ pc = "wait_sleep"
    /\ pc' = "wait_probe"
    /\ UNCHANGED <<killRet, retry, status, led, procs, fatal, diag, shut,
                   calls, okCalls, lastNotify,
                   killsSincePopen,
                   attempts, lastFail, waitProbes, intrAt>>

\* a faulty variant of StatusAfter: the flag is set whatever the outcome of
\* the request
StatusAfterAlways(st, r) == 1

\* lines 33-40: the flag is set after raise_for_status() passed
StatusAfter(st, r) == IF r = "ok" THEN 1 ELSE st

\* a faulty variant of AfterNotify: the RequestException is not caught and
\* reaches line 222
AfterNotifyRaise(r) == IF r = "ok" THEN "start_streaming" ELSE "finally"

\* where main() goes on after start_camera_feed returned: the RequestException
\* is caught (line 39) and the result is dropped (line 64)
AfterNotify(r) == "start_streaming"

\* line 64: start_camera_feed(), the request succeeds or raises
Notify ==
    /\ pc = "notify"
    /\ \E r \in {"ok", "fail"} :
          /\ status' = StatusAfter(status, r)
          /\ lastNotify' = r
          /\ calls' = Min(calls + 1, MaxCalls)
          /\ okCalls' = IF r = "ok" THEN Min(okCalls + 1, MaxCalls) ELSE okCalls
          /\ IF AfterNotify(r) = "finally"
             THEN /\ pc' = "kill1" /\ killRet' = "finally"
                  /\ cause' = "error" /\ cleanupKills' = cleanupKills + 1
             ELSE /\ pc' = AfterNotify(r) /\ killRet' = killRet
                  /\ UNCHANGED <<cause, cleanupKills>>
    /\ retry' = 0
    /\ UNCHANGED <<led, procs, fatal, diag, intr, cleanupKillDone, gpioCleanups,
                   killsSincePopen,
                   attempts, lastFail, waitProbes, intrAt>>

(***************************************************************************)
(* The for loop of main() (lines 165-171) and start_streaming (97-152).    *)
(***************************************************************************)
\* line 167 -> line 100
StartStreaming ==
    /\ pc = "start_streaming"
    /\ pc' = "kill1" /\ killRet' = "launch"
    /\ UNCHANGED <<retry, status, led, procs, fatal, diag, shut, calls,
                   okCalls, lastNotify,
                   killsSincePopen,
                   waitProbes, intrAt>>
    /\ attempts' = Min(attempts + 1, MaxAttempts)
    /\ lastFail' = "none"

\* lines 126-130: Popen of libcamera-vid; an OSError goes to line 150
PopenCam ==
    /\ pc = "popen_cam"
    /\ \E ok \in BOOLEAN :
          IF ok
          THEN /\ killsSincePopen' = 0
               /\ staleCam' = (staleCam \/ cam = "alive")
               /\ cam' = "alive"
               /\ pc' = "settle"
          ELSE /\ UNCHANGED <<killsSincePopen, cam, staleCam>>
               /\ pc' = "retry_sleep"
    /\ lastFail' = IF pc' = "retry_sleep" THEN "capture popen" ELSE lastFail
    /\ UNCHANGED <<killRet, retry, status, led, ff, staleFf, fatal, diag, shut,
                   calls, okCalls, lastNotify,
                   attempts, waitProbes, intrAt>>

\* a faulty variant of Settle: the poll() check of line 133 is left out
SettleNoCheck ==
    /\ pc = "settle"
    /\ pc' = "popen_ff"
    /\ UNCHANGED <<killRet, retry, status, led, procs, fatal, diag, shut,
                   calls, okCalls, lastNotify, killsSincePopen, attempts,
                   lastFail, waitProbes, intrAt>>

\* lines 132-136: sleep(1), then poll() of the capture process
Settle ==
    /\ pc = "settle"
    /\ pc' = IF cam = "alive" THEN "popen_ff" ELSE "retry_sleep"
    /\ UNCHANGED <<killRet, retry, status, led, procs, fatal, diag, shut,
                   calls, okCalls, lastNotify,
                   killsSincePopen,
                   attempts, waitProbes, intrAt>>
    /\ lastFail' = IF cam = "alive" THEN lastFail ELSE "capture exited"

\* a faulty variant of PopenFf: the OSError of Popen is not caught at line 150
\* and goes up to the except of main() at line 222
PopenFfRaises ==
    /\ pc = "popen_ff"
    /\ \E ok \in BOOLEAN :
          IF ok
          THEN /\ killsSincePopen' = 0
               /\ staleFf' = (staleFf \/ ff = "alive")
               /\ ff' = "alive"
               /\ led' = "HIGH"
               /\ fatal' = "none"
               /\ pc' = "poll"
               /\ UNCHANGED <<killRet, cause, cleanupKills>>
          ELSE /\ UNCHANGED <<killsSincePopen, ff, staleFf, led, fatal>>
               /\ pc' = "kill1" /\ killRet' = "finally"
               /\ cause' = "error" /\ cleanupKills' = cleanupKills + 1
    /\ lastFail' = IF pc' = "kill1" THEN "publish popen" ELSE lastFail
    /\ UNCHANGED <<retry, status, cam, staleCam, diag, intr, cleanupKillDone,
                   gpioCleanups, calls, okCalls, lastNotify, attempts,
                   waitProbes, intrAt>>

\* lines 139-149, 168-169, 173-177: Popen of ffmpeg, the handle is returned and
\* main() sets pin 18 high; an OSError goes to line 150
PopenFf ==
    /\ pc = "popen_ff"
    /\ \E ok \in BOOLEAN :
          IF ok
          THEN /\ killsSincePopen' = 0
               /\ staleFf' = (staleFf \/ ff = "alive")
               /\ ff' = "alive"
               /\ led' = "HIGH"
               /\ fatal' = "none"
               /\ pc' = "poll"
          ELSE /\ UNCHANGED <<killsSincePopen, ff, staleFf, led, fatal>>
               /\ pc' = "retry_sleep"
    /\ lastFail' = IF pc' = "retry_sleep" THEN "publish popen" ELSE lastFail
    /\ UNCHANGED <<killRet, retry, status, cam, staleCam, diag, shut, calls,
                   okCalls, lastNotify,
                   attempts, waitProbes, intrAt>>

\* a faulty variant of AfterFailedAttempt: the loop allows one attempt more
\* than max_retries
AfterFailedAttemptOneMore(r) ==
    IF r < max_retries THEN "start_streaming" ELSE "cooldown"

\* a faulty variant of AfterFailedAttempt: main() returns when the budget is
\* used up
AfterFailedAttemptGiveUp(r) ==
    IF r + 1 < max_retries THEN "start_streaming" ELSE "finally"

\* lines 166, 173, 220: after a failed attempt the for loop either runs again
\* or ends with processes = None, and main() goes to line 220
AfterFailedAttempt(r) ==
    IF r + 1 < max_retries THEN "start_streaming" ELSE "cooldown"

\* lines 170-171
RetrySleep ==
    /\ pc = "retry_sleep"
    /\ IF AfterFailedAttempt(retry) = "finally"
       THEN /\ pc' = "kill1" /\ killRet' = "finally"
            /\ cause' = "exit" /\ cleanupKills' = cleanupKills + 1
            /\ retry' = retry
       ELSE /\ pc' = AfterFailedAttempt(retry) /\ killRet' = killRet
            /\ retry' = IF retry + 1 < max_retries THEN retry + 1 ELSE retry
            /\ UNCHANGED <<cause, cleanupKills>>
    /\ UNCHANGED <<status, led, procs, fatal, diag, intr, cleanupKillDone,
                   gpioCleanups, calls, okCalls, lastNotify,
                   killsSincePopen,
                   attempts, lastFail, waitProbes, intrAt>>

\* a faulty variant of Cooldown: the cooldown after a failed cycle also
\* clears the status flag
CooldownResetsStatus ==
    /\ pc = "cooldown"
    /\ pc' = "wait_probe"
    /\ status' = 0
    /\ UNCHANGED <<killRet, retry, led, procs, fatal, diag, shut, calls,
                   okCalls, lastNotify, killsSincePopen, intrAt>>
    /\ attempts' = 0
    /\ lastFail' = "none"
    /\ waitProbes' = "none"

\* lines 220-221
Cooldown ==
    /\ pc = "cooldown"
    /\ pc' = "wait_probe"
    /\ UNCHANGED <<killRet, retry, status, led, procs, fatal, diag, shut,
                   calls, okCalls, lastNotify,
                   killsSincePopen,
                   intrAt>>
    /\ attempts' = 0
    /\ lastFail' = "none"
    /\ waitProbes' = "none"

(***************************************************************************)
(* The poll loop of main() (lines 179-218).                                *)
(***************************************************************************)
\* a faulty variant of Teardown: only the publish process is killed
TeardownKeepCapture(c) ==
    /\ led' = "LOW"
    /\ fatal' = c
    /\ pc' = "kill2" /\ killRet' = "teardown"

\* the four fatal branches (lines 192-194, 200-202, 208-210, 214-216):
\* GPIO.output(18, GPIO.LOW), kill_camera_processes(), break
Teardown(c) ==
    /\ led' = "LOW"
    /\ fatal' = c
    /\ pc' = "kill1" /\ killRet' = "teardown"

\* lines 185-202: the exit status of both processes
Poll ==
    /\ pc = "poll"
    /\ IF cam # "alive" THEN Teardown("capture exited")
       ELSE IF ff # "alive" THEN Teardown("publish exited")
       ELSE /\ pc' = "monitor_cam"
            /\ UNCHANGED <<killRet, led, fatal>>
    /\ diag' = NoDiag
    /\ UNCHANGED <<retry, procs, shut, notif,
                   killsSincePopen,
                   attempts, lastFail, waitProbes, intrAt>>

\* line 205: monitor_process_output(libcamera_process, "libcamera")
MonitorCam ==
    /\ pc = "monitor_cam"
    /\ \/ /\ diag' = NoDiag           \* select() finds nothing to read
          /\ pc' = "monitor_or"
          /\ UNCHANGED <<killRet, led, fatal>>
       \/ \E d \in Lines :
             LET f == MonitorFatal("libcamera", d) IN
             /\ diag' = [proc |-> "libcamera", line |-> d, fatal |-> f]
             /\ IF f THEN Teardown("diagnostic")
                ELSE /\ pc' = "monitor_or"
                     /\ UNCHANGED <<killRet, led, fatal>>
    /\ UNCHANGED <<retry, procs, shut, notif,
                   killsSincePopen,
                   attempts, lastFail, waitProbes, intrAt>>

\* lines 205-206: the first call returned False and `or` goes on to the second
MonitorOr ==
    /\ pc = "monitor_or"
    /\ pc' = "monitor_ff"
    /\ diag' = NoDiag
    /\ UNCHANGED <<killRet, retry, led, procs, fatal, shut, notif,
                   killsSincePopen,
                   attempts, lastFail, waitProbes, intrAt>>

\* line 206: monitor_process_output(ffmpeg_process, "ffmpeg"), reached when
\* the call of line 205 returned False
MonitorFf ==
    /\ pc = "monitor_ff"
    /\ \/ /\ diag' = NoDiag           \* select() finds nothing to read
          /\ pc' = "poll_probe"
          /\ UNCHANGED <<killRet, led, fatal>>
       \/ \E d \in Lines :
             LET f == MonitorFatal("ffmpeg", d) IN
             /\ diag' = [proc |-> "ffmpeg", line |-> d, fatal |-> f]
             /\ IF f THEN Teardown("diagnostic")
                ELSE /\ pc' = "poll_probe"
                     /\ UNCHANGED <<killRet, led, fatal>>
    /\ UNCHANGED <<retry, procs, shut, notif,
                   killsSincePopen,
                   attempts, lastFail, waitProbes, intrAt>>

\* line 212 with check_internet() true
PollProbeOk ==
    /\ pc = "poll_probe"
    /\ pc' = "poll_sleep"
    /\ diag' = NoDiag
    /\ UNCHANGED <<killRet, retry, led, procs, fatal, shut, notif,
                   killsSincePopen,
                   attempts, lastFail, waitProbes, intrAt>>

\* lines 212-216 with check_internet() false: the flag `status` is not written
PollProbeFail ==
    /\ pc = "poll_probe"
    /\ Teardown("connectivity lost")
    /\ diag' = NoDiag
    /\ calls' = 0 /\ okCalls' = 0
    /\ UNCHANGED <<retry, procs, shut, status, lastNotify,
                   killsSincePopen,
                   attempts, lastFail, waitProbes, intrAt>>

\* line 218
PollSleep ==
    /\ pc = "poll_sleep"
    /\ pc' = "poll"
    /\ UNCHANGED <<killRet, retry, led, procs, fatal, diag, shut, notif,
                   killsSincePopen,
                   attempts, lastFail, waitProbes, intrAt>>

\* lines 82, 190, 198: bytes.decode() raises UnicodeDecodeError on output that
\* is not UTF-8; main() catches it at line 222 and goes to line 225
UncaughtError ==
    /\ \/ pc \in {"monitor_cam", "monitor_ff"}
       \/ pc = "poll" /\ (cam # "alive" \/ ff # "alive")
    /\ pc' = "kill1" /\ killRet' = "finally"
    /\ cause' = "error"
    /\ cleanupKills' = cleanupKills + 1
    /\ diag' = NoDiag
    /\ UNCHANGED <<retry, led, procs, fatal, intr, cleanupKillDone,
                   gpioCleanups, notif,
                   killsSincePopen,
                   attempts, lastFail, waitProbes, intrAt>>

(***************************************************************************)
(* Shutdown: the finally of main() (224-226) and the __main__ block        *)
(* (228-235).                                                              *)
(***************************************************************************)
\* line 226, then main() returns or the KeyboardInterrupt reaches line 231
GpioCleanup ==
    /\ pc = "gpio_cleanup"
    /\ pc' = "outer_finally"
    /\ led' = "LOW"
    /\ gpioCleanups' = gpioCleanups + 1
    /\ UNCHANGED <<killRet, retry, procs, fatal, diag, intr, cause,
                   cleanupKills, cleanupKillDone, notif,
                   killsSincePopen,
                   attempts, lastFail, waitProbes, intrAt>>

\* lines 233-235
OuterFinally ==
    /\ pc = "outer_finally"
    /\ pc' = "exited"
    /\ led' = "LOW"
    /\ gpioCleanups' = gpioCleanups + 1
    /\ UNCHANGED <<killRet, retry, procs, fatal, diag, intr, cause,
                   cleanupKills, cleanupKillDone, notif,
                   killsSincePopen,
                   attempts, lastFail, waitProbes, intrAt>>

\* a faulty variant of InterruptInMain: the wait loop of wait_for_internet
\* catches the KeyboardInterrupt and goes on probing
InterruptInMainSwallowedInWait ==
    /\ intr < MaxInterrupts
    /\ InMainTry
    /\ intr' = intr + 1
    /\ IF pc \in {"wait_probe", "wait_sleep"}
       THEN /\ pc' = "wait_probe"
            /\ UNCHANGED <<killRet, cause, cleanupKills>>
       ELSE /\ pc' = "kill1" /\ killRet' = "finally"
            /\ cause' = "interrupt"
            /\ cleanupKills' = cleanupKills + 1
    /\ diag' = NoDiag
    /\ UNCHANGED <<retry, led, procs, fatal, cleanupKillDone, gpioCleanups,
                   notif, killsSincePopen, attempts, lastFail, waitProbes>>
    /\ intrAt' = pc

\* KeyboardInterrupt inside the try of main(): it is no Exception, so line 222
\* lets it pass and the finally of line 224 runs
InterruptInMain ==
    /\ intr < MaxInterrupts
    /\ InMainTry
    /\ intr' = intr + 1
    /\ pc' = "kill1" /\ killRet' = "finally"
    /\ cause' = "interrupt"
    /\ cleanupKills' = cleanupKills + 1
    /\ diag' = NoDiag
    /\ UNCHANGED <<retry, led, procs, fatal, cleanupKillDone, gpioCleanups,
                   notif,
                   killsSincePopen,
                   attempts, lastFail, waitProbes>>
    /\ intrAt' = pc

\* KeyboardInterrupt before the try of line 159 or inside the finally of
\* main(): it leaves main() at once and reaches line 231
InterruptInCleanup ==
    /\ intr < MaxInterrupts
    /\ pc = "start" \/ InFinally
    /\ intr' = intr + 1
    /\ pc' = "outer_finally" /\ killRet' = "none"
    /\ cause' = IF cause = "none" THEN "interrupt" ELSE cause
    /\ diag' = NoDiag
    /\ UNCHANGED <<retry, led, procs, fatal, cleanupKills, cleanupKillDone,
                   gpioCleanups, notif,
                   killsSincePopen,
                   attempts, lastFail, waitProbes>>
    /\ intrAt' = "none"

\* KeyboardInterrupt inside lines 231-235: the process ends with a traceback
InterruptInOuter ==
    /\ intr < MaxInterrupts
    /\ pc = "outer_finally"
    /\ intr' = intr + 1
    /\ pc' = "exited"
    /\ UNCHANGED <<killRet, retry, led, procs, fatal, diag, cause,
                   cleanupKills, cleanupKillDone, gpioCleanups, notif,
                   killsSincePopen,
                   attempts, lastFail, waitProbes, intrAt>>

(***************************************************************************)
(* The child processes end on their own.                                   *)
(***************************************************************************)
CamExit ==
    /\ pc # "exited"
    /\ cam = "alive"
    /\ cam' = "exited"
    /\ UNCHANGED <<ctl, status, led, ff, staleCam, staleFf, fatal, diag, shut,
                   calls, okCalls, lastNotify,
                   killsSincePopen,
                   attempts, lastFail, waitProbes, intrAt>>

FfExit ==
    /\ pc # "exited"
    /\ ff = "alive"
    /\ ff' = "exited"
    /\ UNCHANGED <<ctl, status, led, cam, staleCam, staleFf, fatal, diag, shut,
                   calls, okCalls, lastNotify,
                   killsSincePopen,
                   attempts, lastFail, waitProbes, intrAt>>

StaleExit ==
    /\ pc # "exited"
    /\ \/ staleCam /\ staleCam' = FALSE /\ staleFf' = staleFf
       \/ staleFf /\ staleFf' = FALSE /\ staleCam' = staleCam
    /\ UNCHANGED <<ctl, status, led, cam, ff, fatal, diag, shut, calls,
                   okCalls, lastNotify,
                   killsSincePopen,
                   attempts, lastFail, waitProbes, intrAt>>

Next ==
    \/ MainStart
    \/ PkillLibcamera \/ PkillLibcameraTimeout
    \/ PkillFfmpeg \/ PkillFfmpegTimeout \/ KillSleep
    \/ WaitProbeOk \/ WaitProbeFail \/ WaitSleep \/ Notify
    \/ StartStreaming \/ PopenCam \/ Settle \/ PopenFf \/ RetrySleep \/ Cooldown
    \/ Poll \/ MonitorCam \/ MonitorOr \/ MonitorFf \/ PollProbeOk \/ PollProbeFail
    \/ PollSleep \/ UncaughtError
    \/ GpioCleanup \/ OuterFinally
    \/ InterruptInMain \/ InterruptInCleanup \/ InterruptInOuter
    \/ CamExit \/ FfExit \/ StaleExit

Spec == Init /\ [][Next]_vars

(***************************************************************************)
(* The supervisor is one sequential process that the operating system keeps *)
(* scheduling: whenever its next statement can complete, it does.  The      *)
(* calls that come back by themselves are the ones the code bounds: urlopen *)
(* after at most 3 s (line 50), pkill after at most 5 s (lines 69-70), the  *)
(* sleeps, Popen, poll() and the select-guarded reads.  requests.post at    *)
(* line 34 is given no timeout, so nothing makes the notifier call come     *)
(* back and no fairness is assumed for it.  Nothing is assumed about the    *)
(* outcomes of the calls, about interrupts or about the child processes.    *)
(***************************************************************************)
BoundedStep ==
    \/ MainStart
    \/ PkillLibcamera \/ PkillLibcameraTimeout
    \/ PkillFfmpeg \/ PkillFfmpegTimeout \/ KillSleep
    \/ WaitProbeOk \/ WaitProbeFail \/ WaitSleep
    \/ StartStreaming \/ PopenCam \/ Settle \/ PopenFf \/ RetrySleep \/ Cooldown
    \/ Poll \/ MonitorCam \/ MonitorOr \/ MonitorFf \/ PollProbeOk \/ PollProbeFail
    \/ PollSleep \/ UncaughtError
    \/ GpioCleanup \/ OuterFinally

FairSpec == Spec /\ WF_vars(BoundedStep)

TypeOK ==
    /\ pc \in KillPcs \cup WaitPcs \cup LaunchPcs \cup StreamingPcs
              \cup {"start", "cooldown", "gpio_cleanup", "outer_finally", "exited"}
    /\ killRet \in {"none", "startup", "launch", "teardown", "finally"}
    /\ retry \in 0..(max_retries - 1)
    /\ status \in {0, 1}
    /\ led \in {"LOW", "HIGH"}
    /\ cam \in {"none", "alive", "exited"} /\ ff \in {"none", "alive", "exited"}
    /\ staleCam \in BOOLEAN /\ staleFf \in BOOLEAN
    /\ intr \in 0..MaxInterrupts
    /\ calls \in 0..MaxCalls /\ okCalls \in 0..MaxCalls
    /\ attempts \in 0..MaxAttempts
    /\ lastFail \in {"none", "capture popen", "capture exited", "publish popen"}
    /\ waitProbes \in {"none", "failed", "ok", "regained"}
    /\ intrAt \in {"none"} \cup KillPcs \cup WaitPcs \cup LaunchPcs
                  \cup StreamingPcs \cup {"cooldown"}

(***************************************************************************)
(* Vocabulary of the properties.                                           *)
(***************************************************************************)
\* the supervisor holds a pipeline returned by start_streaming and polls it
Streaming == pc \in StreamingPcs

\* the teardown of the poll loop: kill_camera_processes called at 193-215
TearingDown == pc \in KillPcs /\ killRet = "teardown"

\* the step delivers a KeyboardInterrupt / raises the uncaught error
InterruptStep == intr' = intr + 1
ErrorStep == cause # "error" /\ cause' = "error"

NoChildAlive == cam # "alive" /\ ff # "alive" /\ ~staleCam /\ ~staleFf

\* the line contains "INFO" / one of the error terms in any letter case /
\* "connection timeout" in any letter case
HasINFO(line) == \E i \in DOMAIN line : line[i].w = "info" /\ line[i].c = "upper"
HasErrorWord(line) == \E i \in DOMAIN line : line[i].w \in ErrorTerms
HasConnectionTimeout(line) ==
    \E i \in DOMAIN line :
        /\ i + 1 \in DOMAIN line
        /\ line[i].w = "connection" /\ line[i + 1].w = "timeout"

(***************************************************************************)
(* C1.  At every point of main() pin 18 is high if and only if the         *)
(* supervisor is in STREAMING; it is low while the shutdown cleanup runs.  *)
(* The finally of main() calls kill_camera_processes() before              *)
(* GPIO.cleanup(), so an interrupt in the poll loop leaves the pin high    *)
(* during the cleanup.                                                     *)
(***************************************************************************)
C1_IndicatorIffStreaming == (led = "HIGH") <=> Streaming

C3_LostConnectivityResetsStatus ==
    (TearingDown /\ fatal = "connectivity lost") => status = 0

(***************************************************************************)
(* C4.  As claimed: after max_retries failed attempts the supervisor goes  *)
(* through the cooldown back to wait_for_internet, and the outer loop is   *)
(* left only by a KeyboardInterrupt.                                       *)
(***************************************************************************)
Exhausted == pc = "retry_sleep" /\ retry = max_retries - 1

C4_ExhaustionRoutesToWait ==
    /\ (Exhausted /\ pc' # pc) => (pc' = "cooldown" \/ InterruptStep)
    /\ (pc = "cooldown" /\ pc' # pc) => (pc' = "wait_probe" \/ InterruptStep)

C6_CleanupRunsOnceToCompletion ==
    (pc = "exited" /\ cleanupKills >= 1)
        => (cleanupKills = 1 /\ cleanupKillDone /\ gpioCleanups >= 1)

(***************************************************************************)
(* C7.  A line of the publish process that contains "connection timeout"   *)
(* in any letter case is classified fatal, and in the step that read it    *)
(* pin 18 is set low and kill_camera_processes is called.                  *)
(***************************************************************************)
C7_ConnectionTimeoutIsFatal ==
    (diag.proc = "ffmpeg" /\ HasConnectionTimeout(diag.line))
        => /\ diag.fatal
           /\ fatal = "diagnostic"
           /\ led = "LOW"
           /\ pc = "kill1" /\ killRet = "teardown"

C7_Witness ==
    /\ diag.proc = "ffmpeg"
    /\ diag.line = <<[w |-> "connection", c |-> "upper"],
                     [w |-> "timeout", c |-> "upper"]>>
    /\ pc = "kill1" /\ killRet = "teardown" /\ led = "LOW"

(***************************************************************************)
(* C8.  A line of the capture process that contains "INFO" is never        *)
(* fatal, with an error term in it too, and the poll goes on; the same     *)
(* line read from the publish process is fatal.                            *)
(***************************************************************************)
C8_InfoLineOfCaptureIsBenign ==
    /\ (diag.proc = "libcamera" /\ HasINFO(diag.line))
          => (~diag.fatal /\ pc = "monitor_or" /\ led = "HIGH")
    /\ (diag.proc = "ffmpeg" /\ HasINFO(diag.line) /\ HasErrorWord(diag.line))
          => (diag.fatal /\ TearingDown)

C8_Witness ==
    /\ diag.proc = "libcamera"
    /\ HasINFO(diag.line) /\ HasErrorWord(diag.line)
    /\ pc = "monitor_or"

(***************************************************************************)
(* C9.  When kill_camera_processes has been called twice in succession,    *)
(* no process started in between, no capture or publish process is         *)
(* running and pin 18 is low.                                              *)
(***************************************************************************)
C9_TeardownLeavesNothingRunning ==
    killsSincePopen >= 2 => (NoChildAlive /\ led = "LOW")

(***************************************************************************)
(* C10.  The result of start_camera_feed does not change what the          *)
(* supervisor does next: for either result the step goes to the first      *)
(* launch attempt and changes nothing but the flag and the record of the   *)
(* call; the flag is read only to decide whether the call is made, and     *)
(* with or without the call wait_for_internet returns to the same launch.  *)
(***************************************************************************)
C10_NotifyResultIsIgnored ==
    [][ /\ (pc = "notify" /\ pc' # pc /\ ~InterruptStep)
              => /\ pc' = "start_streaming" /\ retry' = 0
                 /\ UNCHANGED <<killRet, led, procs, fatal, cause, cleanupKills>>
        /\ (pc = "wait_probe" /\ pc' = "start_streaming")
              => /\ retry' = 0
                 /\ UNCHANGED <<killRet, led, procs, fatal, cause, cleanupKills>>
      ]_vars

\* streaming after a start_camera_feed call that failed
C10_Witness ==
    lastNotify = "fail" /\ status = 0 /\ Streaming /\ led = "HIGH"

(***************************************************************************)
(* C11: every failure path of start_streaming returns None and never       *)
(* raises to main(): a step of a launch attempt that is no interrupt stays  *)
(* inside the attempt, hands the pipeline to main(), or ends at the         *)
(* inter-retry sleep with the reason recorded (Popen of the capture process *)
(* failed, the capture process had exited at the check after the settle     *)
(* delay, Popen of the publish process failed); it never enters the finally *)
(* of main() and leaves the exit cause alone.  main() then counts the None  *)
(* as one used attempt: the sleep is followed by the next attempt with the  *)
(* loop index one higher, or by the cooldown when it was the last one.      *)
(***************************************************************************)
InLaunchAttempt ==
    \/ pc \in {"popen_cam", "settle", "popen_ff"}
    \/ pc \in KillPcs /\ killRet = "launch"

C11_LaunchFailureReturnsNone ==
    [][ /\ (InLaunchAttempt /\ ~InterruptStep)
            => /\ cause' = cause
               /\ cleanupKills' = cleanupKills
               /\ \/ InLaunchAttempt'
                  \/ pc' = "poll" /\ lastFail' = "none"
                  \/ pc' = "retry_sleep" /\ lastFail' # "none" /\ led' = "LOW"
        /\ (pc = "settle" /\ cam # "alive" /\ pc' # pc /\ ~InterruptStep)
            => pc' = "retry_sleep" /\ lastFail' = "capture exited"
        /\ (pc = "retry_sleep" /\ pc' # pc /\ ~InterruptStep)
            => \/ /\ retry + 1 < max_retries
                  /\ pc' = "start_streaming" /\ retry' = retry + 1
               \/ /\ retry + 1 = max_retries
                  /\ pc' = "cooldown"
      ]_vars

\* each of the three failures has ended an attempt, and the second attempt of
\* the cycle is about to be made after a failed Popen of the publish process
C11_Witness ==
    /\ pc = "start_streaming" /\ retry = 1 /\ lastFail = "publish popen"
    /\ cause = "none"

(***************************************************************************)
(* C12: a KeyboardInterrupt that arrives in the wait loop of                *)
(* wait_for_internet (the probe or its sleep), in the sleep between two     *)
(* launch attempts or in the sleep of the poll loop is acted on at once:    *)
(* the step enters the finally of main().  Once main() is left on an        *)
(* interrupt no launch attempt is started any more, and when that interrupt *)
(* is the only one the process ends after kill_camera_processes has         *)
(* returned and GPIO.cleanup has released pin 18.                           *)
(***************************************************************************)
InterruptPoints == {"wait_probe", "wait_sleep", "retry_sleep", "poll_sleep"}

C12_InterruptUnwindsToCleanup ==
    [][ /\ (InterruptStep /\ pc \in InterruptPoints)
            => /\ pc' = "kill1" /\ killRet' = "finally"
               /\ cause' = "interrupt"
               /\ intrAt' = pc
        /\ cause = "interrupt"
            => /\ InFinally' \/ pc' \in {"outer_finally", "exited"}
               /\ attempts' = attempts
               /\ cam' # "alive" \/ cam = "alive"
               /\ ff' # "alive" \/ ff = "alive"
        /\ (pc' = "exited" /\ cause' = "interrupt" /\ intr' = 1
                /\ cleanupKills' = 1)
            => /\ cleanupKillDone'
               /\ gpioCleanups' >= 1
               /\ led' = "LOW"
      ]_vars

\* the interrupt arrived in the sleep of the poll loop, with pin 18 high, and
\* kill_camera_processes of the finally is about to run
C12_Witness ==
    /\ intrAt = "poll_sleep" /\ intr = 1
    /\ pc = "kill1" /\ killRet = "finally"
    /\ led = "HIGH" /\ cam = "alive" /\ ff = "alive"

(***************************************************************************)
(* C13: in every cycle, from the return of wait_for_internet to its next    *)
(* call, start_streaming is called at least once and at most max_retries    *)
(* times: the first call follows the return with loop index 0, the count of *)
(* calls is the loop index plus one, no further call is made once a call    *)
(* has returned a pipeline, and the count starts from 0 again when          *)
(* wait_for_internet is called.  A cycle that reaches the cooldown after a  *)
(* failed attempt has made all max_retries attempts and comes straight from *)
(* the inter-retry sleep, never from the poll loop.                         *)
(***************************************************************************)
C13_AttemptsInv ==
    /\ attempts <= max_retries
    /\ (pc = "start_streaming") => attempts = retry
    /\ (InLaunchAttempt \/ pc = "retry_sleep" \/ Streaming \/ TearingDown)
        => attempts = retry + 1
    /\ Streaming => lastFail = "none"
    /\ (pc = "cooldown") => attempts >= 1
    /\ (pc = "cooldown" /\ lastFail # "none") => attempts = max_retries
    /\ (pc \in WaitPcs) => attempts = 0

C13_AttemptsStep ==
    /\ (pc \in WaitPcs /\ pc' \notin WaitPcs /\ ~InterruptStep)
        => pc' = "start_streaming" /\ retry' = 0
    /\ (Streaming \/ TearingDown) => attempts' = attempts
    /\ (pc' = "cooldown" /\ pc # "cooldown" /\ lastFail' # "none")
        => Exhausted
    /\ (Exhausted /\ pc' # pc /\ ~InterruptStep)
        => pc' = "cooldown" /\ led' = "LOW"

C13_AttemptsPerCycle == []C13_AttemptsInv /\ [][C13_AttemptsStep]_vars

\* all three attempts of a cycle have failed, the last one because the
\* capture process had exited
C13_Witness ==
    /\ pc = "cooldown" /\ attempts = max_retries
    /\ lastFail = "capture exited"

(***************************************************************************)
(* C14: from the return of wait_for_internet to its next call, that is in   *)
(* the for loop of main(), in start_streaming with its                      *)
(* kill_camera_processes, in the inter-retry sleep and in the cooldown, no  *)
(* step writes the status flag or calls the notifier, whatever the number   *)
(* of failed attempts; and when wait_for_internet then finds the network    *)
(* reachable with status = 1 it returns without a notifier call.            *)
(***************************************************************************)
C14_LaunchFailureKeepsStatus ==
    [][ /\ (pc \in LaunchPcs \cup {"cooldown"} \/ InLaunchAttempt)
            => /\ status' = status
               /\ calls' = calls /\ okCalls' = okCalls
               /\ lastNotify' = lastNotify
        /\ (pc = "wait_probe" /\ status = 1 /\ ~InterruptStep
                /\ pc' \notin {"wait_probe", "wait_sleep"})
            => /\ pc' = "start_streaming"
               /\ status' = 1 /\ calls' = calls
      ]_vars

\* three attempts have failed and the cooldown is over: the flag set by the
\* one successful notifier call is still 1 when wait_for_internet is called
C14_Witness ==
    /\ pc = "wait_probe" /\ waitProbes = "none"
    /\ retry = max_retries - 1 /\ fatal = "none" /\ led = "LOW"
    /\ status = 1 /\ calls = 1 /\ okCalls = 1

(***************************************************************************)
(* C15: every launch attempt begins with the teardown: when Popen of the    *)
(* capture process is reached, kill_camera_processes has returned since the *)
(* last Popen and no capture or publish process of an earlier attempt is    *)
(* running, and never are two capture processes or two publish processes    *)
(* started by the supervisor alive together.                                *)
(***************************************************************************)
C15_LaunchStartsFromNothing ==
    /\ (pc = "popen_cam")
        => /\ killsSincePopen >= 1
           /\ cam # "alive" /\ ff # "alive"
    /\ ~staleCam /\ ~staleFf

(***************************************************************************)
(* C16: when the poll() of line 133 finds the capture process exited, the   *)
(* attempt ends there with None and the publish process of that attempt is  *)
(* not started; Popen of the publish process is reached only from that      *)
(* check, with the capture process alive at the check, and a publish        *)
(* process is started nowhere else.                                         *)
(***************************************************************************)
C16_PublishOnlyAfterLiveCapture ==
    [][ /\ (pc = "settle" /\ cam # "alive" /\ pc' # pc /\ ~InterruptStep)
            => /\ pc' = "retry_sleep"
               /\ lastFail' = "capture exited"
               /\ ff' = ff /\ staleFf' = staleFf
        /\ (pc' = "popen_ff" /\ pc # "popen_ff")
            => pc = "settle" /\ cam = "alive"
        /\ ((ff' = "alive" /\ ff # "alive") \/ (staleFf' /\ ~staleFf))
            => pc = "popen_ff" /\ pc' = "poll"
      ]_vars

\* the capture process started in this attempt had exited at the check: the
\* attempt has returned None and no publish process was started
C16_Witness ==
    /\ pc = "retry_sleep" /\ lastFail = "capture exited"
    /\ cam = "exited" /\ killsSincePopen = 0
    /\ ff = "none" /\ ~staleFf

(***************************************************************************)
(* C17: the start of a pipeline is gated on connectivity.  In every cycle   *)
(* the notifier call, every start_streaming call and the poll loop come     *)
(* after a probe of that cycle's wait_for_internet has succeeded; the wait  *)
(* loop ends on the first probe that succeeds and on no other step; and as  *)
(* long as the probes fail the supervisor alternates between the probe and  *)
(* its sleep, calls no notifier, makes no launch attempt, starts no process *)
(* and leaves pin 18 alone.  (The notifier call of line 64 is the last      *)
(* statement of wait_for_internet: it comes after the wait loop and the     *)
(* function returns with it.)                                               *)
(***************************************************************************)
ProbeSucceeded == waitProbes \in {"ok", "regained"}

C17_GatedInv ==
    /\ (pc = "notify" \/ pc \in LaunchPcs \/ InLaunchAttempt \/ Streaming
            \/ TearingDown)
        => ProbeSucceeded
    /\ (pc \in {"wait_probe", "wait_sleep"}) => ~ProbeSucceeded

C17_GatedStep ==
    /\ (pc \in {"wait_probe", "wait_sleep"} /\ ~InterruptStep)
        => /\ calls' <= calls /\ lastNotify' = lastNotify
           /\ attempts' = attempts
           /\ cam' # "alive" \/ cam = "alive"
           /\ ff' # "alive" \/ ff = "alive"
           /\ led' = led
           /\ ProbeSucceeded' <=> pc' \in {"notify", "start_streaming"}
           /\ ~ProbeSucceeded' <=> pc' \in {"wait_probe", "wait_sleep"}
    /\ (pc = "wait_sleep" /\ ~InterruptStep) => ~ProbeSucceeded'

C18_NoChildOutsidePipeline ==
    (pc \in WaitPcs \cup {"cooldown", "retry_sleep"}) => NoChildAlive

(***************************************************************************)
(* C19: the status flag is 1 only if the last notifier call succeeded, and  *)
(* it is written at two places only: start_camera_feed sets it to 1, and    *)
(* only when the request succeeded, and a failed probe in the wait loop of  *)
(* wait_for_internet sets it to 0.  A failed notifier call leaves the flag  *)
(* at 0, so that the next wait_for_internet that finds the network          *)
(* reachable calls the notifier again.                                      *)
(***************************************************************************)
NotifierReturns == pc = "notify" /\ pc' # "notify" /\ ~InterruptStep

C19_StatusInv == (status = 1) => (lastNotify = "ok" /\ pc # "notify")

C19_StatusStep ==
    /\ (status' # status)
        => \/ NotifierReturns /\ lastNotify' = "ok" /\ status' = 1
           \/ pc = "wait_probe" /\ pc' = "wait_sleep" /\ status' = 0
    /\ (pc = "wait_probe" /\ pc' = "wait_sleep") => status' = 0
    /\ (NotifierReturns /\ lastNotify' = "ok") => status' = 1
    /\ (NotifierReturns /\ lastNotify' = "fail") => status' = 0
    /\ (pc = "wait_probe" /\ status = 0 /\ ProbeSucceeded' /\ ~InterruptStep)
        => pc' = "notify"

C19_StatusFollowsNotifier == []C19_StatusInv /\ [][C19_StatusStep]_vars

\* the notifier call of the cycle before failed, no probe has failed since,
\* and wait_for_internet is about to call the notifier again
C19_Witness ==
    /\ pc = "notify" /\ status = 0
    /\ lastNotify = "fail" /\ calls = 1 /\ waitProbes = "ok"

(***************************************************************************)
(* C20: liveness, under the fairness of FairSpec.  If the supervisor is     *)
(* never shut down and from some point on no probe fails, no launch attempt *)
(* returns None and no interrupt arrives, then the supervisor comes to the  *)
(* poll loop with pin 18 high, again after every teardown; and under the    *)
(* same conditions a wait_for_internet whose probe has failed is followed   *)
(* by a successful probe, exactly one notifier call since the failed probe, *)
(* and the first launch attempt of the cycle.                               *)
(***************************************************************************)
Running == ~InFinally /\ pc \notin {"outer_finally", "exited"}

ProbeFails ==
    \/ pc = "wait_probe" /\ pc' = "wait_sleep"
    \/ pc = "poll_probe" /\ pc' = "kill1"

LaunchFails == pc # "retry_sleep" /\ pc' = "retry_sleep"

EnvironmentGood == ~ProbeFails /\ ~LaunchFails /\ ~InterruptStep

C20_EventuallyStreaming ==
    (<>[][EnvironmentGood]_vars /\ []Running)
    => /\ []<>(Streaming /\ led = "HIGH")
       /\ (pc = "wait_sleep")
              ~> (pc = "start_streaming" /\ waitProbes = "regained"
                    /\ calls = 1 /\ attempts = 0)

====
